---- MODULE Spec2Model ----
(***************************************************************************)
(* The three applications of the repository, each with its own             *)
(* specification over its own variables:                                   *)
(*   Spec      the voting reducer votingReducer applied to any action;     *)
(*   SpecView  the VotingApp view: input, submit, vote and reset buttons;  *)
(*   SpecTodo  the TodoApp: load and save effects, add, toggle, delete;    *)
(*   SpecForm  the FormApp: field changes, submit and validation.          *)
(* Date.now() is modelled by the variable clock, a wall-clock reading in   *)
(* milliseconds that advances between, but not during, handlers.           *)
(* Strings that the code inspects (trim, length, regular expressions) are  *)
(* sequences of one-character strings.                                     *)
(***************************************************************************)
EXTENDS Integers, Sequences, FiniteSets, TLC

\* Largest wall-clock reading explored.
MaxClock == 4

\* Largest number of actions dispatched after the mount.
MaxDispatch == 4

VARIABLES
    state,      \* the VotingState held by useReducer
    prev,       \* the VotingState the last dispatched action was applied to
    history,    \* the actions dispatched since the mount, oldest first
    clock,      \* the value Date.now() returns at this moment
    newOption,  \* VotingApp: the text of the new-option input
    event,      \* the last user event handled by a view, with its input
    todos,      \* TodoApp: the todos of the last committed render
    newTodo,    \* TodoApp: the text of the new-todo input
    storage,    \* localStorage: the value under 'todos', or NoItem
    effects,    \* TodoApp: the effects of the last commit still to run
    updates,    \* TodoApp: the setTodos updates queued for the next render
    todoPrev,   \* TodoApp: todos and newTodo when the last event arrived
    savedAtMount, \* the value under 'todos' when TodoApp mounted
    formData,   \* FormApp: the four field values
    errors,     \* FormApp: the displayed error of each field
    showSuccess, \* FormApp: the success flag
    timers,     \* FormApp: pending setTimeout callbacks hiding the success
    formPrev    \* FormApp: formData, errors, showSuccess before the event

votingVars == <<state, prev, history>>
viewVars == <<newOption>>
todoVars == <<todos, newTodo, storage, effects, updates, todoPrev,
              savedAtMount>>
formVars == <<formData, errors, showSuccess, timers, formPrev>>

vars == <<votingVars, clock, event, viewVars, todoVars, formVars>>

----------------------------------------------------------------------------
(* Values of the variables of an application that is not mounted *)

\* localStorage.getItem of a key that was never set: null.
NoItem == [present |-> FALSE, json |-> << >>]

\* The event before any user event.
NoEvent == [kind |-> "none"]

NotMounted == "not mounted"

ViewIdle == newOption = << >>

TodoIdle ==
    /\ todos = << >>
    /\ newTodo = << >>
    /\ storage = NoItem
    /\ effects = << >>
    /\ updates = << >>
    /\ todoPrev = NotMounted
    /\ savedAtMount = NoItem

FormIdle ==
    /\ formData = NotMounted
    /\ errors = NotMounted
    /\ showSuccess = FALSE
    /\ timers = 0
    /\ formPrev = NotMounted

----------------------------------------------------------------------------
(* Inputs *)

\* Option texts handed to ADD_OPTION; the reducer is given them verbatim.
Texts == {"Option C", "", " d "}

\* The id of an option that is never created.
UnknownId == 999

\* Payloads of VOTE: every id an option can have, and one no option has.
VoteIds == (1..MaxClock) \cup {UnknownId}

\* Readings of Date.now(): later than the ids of the seed options.
ClockValues == 3..MaxClock

----------------------------------------------------------------------------
(* The reducer *)

\* useReducer's initial state.
Seed ==
    [options |-> << [id |-> 1, text |-> "Option A", votes |-> 0],
                    [id |-> 2, text |-> "Option B", votes |-> 0] >>,
     totalVotes |-> 0]

\* case 'ADD_OPTION', written with the new option in front.
AddOptionPrepend(s, action, now) ==
    [s EXCEPT !.options =
        << [id |-> now, text |-> action.payload, votes |-> 0] >> \o s.options]

\* case 'ADD_OPTION', written with the new option counted as a vote.
AddOptionCounted(s, action, now) ==
    [options |-> Append(s.options,
                    [id |-> now, text |-> action.payload, votes |-> 0]),
     totalVotes |-> s.totalVotes + 1]

\* case 'ADD_OPTION', written with a check that drops an empty text.
AddOptionValidated(s, action, now) ==
    IF action.payload = ""
    THEN s
    ELSE [s EXCEPT !.options =
            Append(s.options,
                [id |-> now, text |-> action.payload, votes |-> 0])]

\* case 'ADD_OPTION', written with the timestamp in votes as well.
AddOptionStamped(s, action, now) ==
    [s EXCEPT !.options =
        Append(s.options,
            [id |-> now, text |-> action.payload, votes |-> now])]

\* case 'ADD_OPTION': spread the state, append {id: Date.now(), text, votes: 0}.
AddOptionCase(s, action, now) ==
    [s EXCEPT !.options =
        Append(s.options, [id |-> now, text |-> action.payload, votes |-> 0])]

\* case 'VOTE', written with an increment of 2.
VoteByTwo(s, action) ==
    [options |-> [i \in DOMAIN s.options |->
                    IF s.options[i].id = action.payload
                    THEN [s.options[i] EXCEPT !.votes = @ + 2]
                    ELSE s.options[i]],
     totalVotes |-> s.totalVotes + 1]

\* case 'VOTE', written without the increment of totalVotes.
VoteForgetsTotal(s, action) ==
    [options |-> [i \in DOMAIN s.options |->
                    IF s.options[i].id = action.payload
                    THEN [s.options[i] EXCEPT !.votes = @ + 1]
                    ELSE s.options[i]],
     totalVotes |-> s.totalVotes]

\* case 'VOTE': map over the options, incrementing the votes of each option
\* whose id is the payload; totalVotes is incremented in every case.
VoteCase(s, action) ==
    [options |-> [i \in DOMAIN s.options |->
                    IF s.options[i].id = action.payload
                    THEN [s.options[i] EXCEPT !.votes = @ + 1]
                    ELSE s.options[i]],
     totalVotes |-> s.totalVotes + 1]

\* case 'RESET', written without the reset of totalVotes.
ResetKeepTotal(s) ==
    [options |-> [i \in DOMAIN s.options |->
                    [s.options[i] EXCEPT !.votes = 0]],
     totalVotes |-> s.totalVotes]

\* case 'RESET', written as the withdrawal of one vote per option.
ResetByOne(s) ==
    [options |-> [i \in DOMAIN s.options |->
                    [s.options[i] EXCEPT
                        !.votes = IF @ > 0 THEN @ - 1 ELSE 0]],
     totalVotes |-> 0]

\* case 'RESET': every option's votes becomes 0, totalVotes becomes 0.
ResetCase(s) ==
    [options |-> [i \in DOMAIN s.options |->
                    [s.options[i] EXCEPT !.votes = 0]],
     totalVotes |-> 0]

\* default, written as a fall-through into 'RESET'.
DefaultResets(s) ==
    [options |-> [i \in DOMAIN s.options |->
                    [s.options[i] EXCEPT !.votes = 0]],
     totalVotes |-> 0]

\* default: the state is returned as it is.
DefaultCase(s) == s

\* switch (action.type)
votingReducer(s, action, now) ==
    CASE action.type = "ADD_OPTION" -> AddOptionCase(s, action, now)
      [] action.type = "VOTE"       -> VoteCase(s, action)
      [] action.type = "RESET"      -> ResetCase(s)
      [] OTHER                      -> DefaultCase(s)

\* <progress value={option.votes} ...>
progressValue(option) == option.votes

\* <progress max=...>, written without the guard.
progressMaxUnguarded(s) == s.totalVotes

\* <progress max={context.state.totalVotes || 1}>: || takes its right side
\* when the left one is 0.
progressMax(s) == IF s.totalVotes # 0 THEN s.totalVotes ELSE 1

----------------------------------------------------------------------------
(* Dispatches *)

\* Each dispatch applies the reducer to the current state; the reducer reads
\* Date.now() once, in case 'ADD_OPTION'.

\* dispatch({ type: 'ADD_OPTION', payload: text })
DispatchAddOption ==
    \E text \in Texts :
        /\ Len(history) < MaxDispatch
        /\ state' = votingReducer(state,
                        [type |-> "ADD_OPTION", payload |-> text], clock)
        /\ prev' = state
        /\ history' = Append(history,
                        [type |-> "ADD_OPTION", payload |-> text])
        /\ UNCHANGED <<clock, event, viewVars, todoVars, formVars>>

\* dispatch({ type: 'VOTE', payload: id })
DispatchVote ==
    \E id \in VoteIds :
        /\ Len(history) < MaxDispatch
        /\ state' = votingReducer(state,
                        [type |-> "VOTE", payload |-> id], clock)
        /\ prev' = state
        /\ history' = Append(history, [type |-> "VOTE", payload |-> id])
        /\ UNCHANGED <<clock, event, viewVars, todoVars, formVars>>

\* dispatch({ type: 'RESET' })
DispatchReset ==
    /\ Len(history) < MaxDispatch
    /\ state' = votingReducer(state, [type |-> "RESET"], clock)
    /\ prev' = state
    /\ history' = Append(history, [type |-> "RESET"])
    /\ UNCHANGED <<clock, event, viewVars, todoVars, formVars>>

\* An action object whose type is none of the three the reducer names.
DispatchUnknown ==
    /\ Len(history) < MaxDispatch
    /\ state' = votingReducer(state, [type |-> "UNKNOWN"], clock)
    /\ prev' = state
    /\ history' = Append(history, [type |-> "UNKNOWN"])
    /\ UNCHANGED <<clock, event, viewVars, todoVars, formVars>>

\* Time passes between two dispatches.
Tick ==
    /\ clock < MaxClock
    /\ clock' = clock + 1
    /\ UNCHANGED <<votingVars, event, viewVars, todoVars, formVars>>

Init ==
    /\ state = Seed
    /\ prev = Seed
    /\ history = << >>
    /\ clock \in ClockValues
    /\ event = NoEvent
    /\ ViewIdle
    /\ TodoIdle
    /\ FormIdle

Next ==
    \/ DispatchAddOption
    \/ DispatchVote
    \/ DispatchReset
    \/ DispatchUnknown
    \/ Tick

Spec == Init /\ [][Next]_vars

----------------------------------------------------------------------------
(* Strings *)

\* Largest length of a text typed into an input of VotingApp or TodoApp.
MaxInput == 2

\* Characters String.prototype.trim removes, as far as they are typed here.
Whitespace == {" ", "\t"}

\* The characters typed into the inputs.
Alphabet == {"a", " "}

\* e.target.value: every text of at most MaxInput characters.
Inputs == UNION {[1..n -> Alphabet] : n \in 0..MaxInput}

RECURSIVE TrimStart(_)
TrimStart(s) ==
    IF s # << >> /\ Head(s) \in Whitespace THEN TrimStart(Tail(s)) ELSE s

RECURSIVE TrimEnd(_)
TrimEnd(s) ==
    IF s # << >> /\ s[Len(s)] \in Whitespace
    THEN TrimEnd(SubSeq(s, 1, Len(s) - 1))
    ELSE s

\* String.prototype.trim
Trim(s) == TrimEnd(TrimStart(s))

\* The characters of the texts of the seed options.
Chars(str) ==
    CASE str = "Option A" -> <<"O", "p", "t", "i", "o", "n", " ", "A">>
      [] str = "Option B" -> <<"O", "p", "t", "i", "o", "n", " ", "B">>

----------------------------------------------------------------------------
(* The VotingApp view *)

\* The seed state, its texts spelled out.
ViewSeed ==
    [options |-> [i \in DOMAIN Seed.options |->
                    [Seed.options[i] EXCEPT !.text = Chars(@)]],
     totalVotes |-> Seed.totalVotes]

\* onChange of the new-option input: setNewOption(e.target.value)
ChangeNewOption ==
    \E value \in Inputs :
        /\ value # newOption
        /\ newOption' = value
        /\ event' = [kind |-> "change"]
        /\ UNCHANGED <<votingVars, clock, todoVars, formVars>>

\* handleAddOption, written with the untrimmed input as the payload.
SubmitUntrimmed ==
    /\ event' = [kind |-> "submit", input |-> newOption,
                 before |-> state, dispatched |-> Len(history)]
    /\ IF Trim(newOption) # << >>
       THEN /\ Len(history) < MaxDispatch
            /\ state' = votingReducer(state,
                    [type |-> "ADD_OPTION", payload |-> newOption], clock)
            /\ prev' = state
            /\ history' = Append(history,
                    [type |-> "ADD_OPTION", payload |-> newOption])
            /\ newOption' = << >>
       ELSE UNCHANGED <<votingVars, newOption>>
    /\ UNCHANGED <<clock, todoVars, formVars>>

\* onSubmit of the add-option form: handleAddOption. A text that is empty
\* once trimmed is dropped; any other is dispatched trimmed and the input
\* is cleared.
SubmitAddOption ==
    /\ event' = [kind |-> "submit", input |-> newOption,
                 before |-> state, dispatched |-> Len(history)]
    /\ IF Trim(newOption) # << >>
       THEN /\ Len(history) < MaxDispatch
            /\ state' = votingReducer(state,
                    [type |-> "ADD_OPTION", payload |-> Trim(newOption)],
                    clock)
            /\ prev' = state
            /\ history' = Append(history,
                    [type |-> "ADD_OPTION", payload |-> Trim(newOption)])
            /\ newOption' = << >>
       ELSE UNCHANGED <<votingVars, newOption>>
    /\ UNCHANGED <<clock, todoVars, formVars>>

\* onClick of the vote button of a displayed option.
ClickVote ==
    \E i \in DOMAIN state.options :
        /\ Len(history) < MaxDispatch
        /\ state' = votingReducer(state,
                [type |-> "VOTE", payload |-> state.options[i].id], clock)
        /\ prev' = state
        /\ history' = Append(history,
                [type |-> "VOTE", payload |-> state.options[i].id])
        /\ event' = [kind |-> "vote", index |-> i]
        /\ UNCHANGED <<clock, viewVars, todoVars, formVars>>

\* onClick of the reset button.
ClickReset ==
    /\ Len(history) < MaxDispatch
    /\ state' = votingReducer(state, [type |-> "RESET"], clock)
    /\ prev' = state
    /\ history' = Append(history, [type |-> "RESET"])
    /\ event' = [kind |-> "reset"]
    /\ UNCHANGED <<clock, viewVars, todoVars, formVars>>

InitView ==
    /\ state = ViewSeed
    /\ prev = ViewSeed
    /\ history = << >>
    /\ clock \in ClockValues
    /\ event = NoEvent
    /\ ViewIdle
    /\ TodoIdle
    /\ FormIdle

NextView ==
    \/ ChangeNewOption
    \/ SubmitAddOption
    \/ ClickVote
    \/ ClickReset
    \/ Tick

SpecView == InitView /\ [][NextView]_vars

----------------------------------------------------------------------------
(* The TodoApp *)

\* Largest number of add, toggle and delete events after the mount.
MaxEvents == 3

\* The value localStorage holds under 'todos' after setItem(json).
Item(json) == [present |-> TRUE, json |-> json]

\* JSON.stringify(todos): the text lists, in order, the id, text and
\* completed of each todo.
JSONstringify(list) ==
    [i \in DOMAIN list |-> <<list[i].id, list[i].text, list[i].completed>>]

\* JSON.parse(savedTodos)
JSONparse(json) ==
    [i \in DOMAIN json |->
        [id |-> json[i][1], text |-> json[i][2], completed |-> json[i][3]]]

\* Lists an earlier session may have saved.
SavedLists ==
    { << >>,
      << [id |-> 1, text |-> <<"a">>, completed |-> FALSE] >>,
      << [id |-> 1, text |-> <<"a">>, completed |-> TRUE],
         [id |-> 2, text |-> <<"a", "a">>, completed |-> FALSE] >> }

\* What localStorage can hold under 'todos' when the component mounts.
StoredAtMount == {NoItem} \cup {Item(JSONstringify(l)) : l \in SavedLists}

\* Ids handed to toggleTodo and deleteTodo: every id a todo can have, and
\* one no todo has.
TodoIds == (1..MaxClock) \cup {UnknownId}

\* The effects of the first commit, in the order of their declaration.
EffectsOnce == <<"load", "save">>

\* The effects of the first commit when React runs the mount effects a
\* second time before it renders again.
EffectsTwice == EffectsOnce \o EffectsOnce

MountEffects == {EffectsOnce, EffectsTwice}

\* The updater of addTodo: [...prevTodos, {id: Date.now(), text, completed}]
addUpdater(prevTodos, text, now) ==
    Append(prevTodos, [id |-> now, text |-> text, completed |-> FALSE])

\* The updater of toggleTodo: map, negating completed where the id matches.
toggleUpdater(prevTodos, id) ==
    [i \in DOMAIN prevTodos |->
        IF prevTodos[i].id = id
        THEN [prevTodos[i] EXCEPT !.completed = ~@]
        ELSE prevTodos[i]]

\* The updater of deleteTodo: filter, keeping the todos of another id.
RECURSIVE deleteUpdater(_, _)
deleteUpdater(prevTodos, id) ==
    IF prevTodos = << >> THEN << >>
    ELSE IF Head(prevTodos).id # id
         THEN << Head(prevTodos) >> \o deleteUpdater(Tail(prevTodos), id)
         ELSE deleteUpdater(Tail(prevTodos), id)

\* The number of add, toggle and delete events so far.
EventCount == IF event.kind = "none" THEN 0 ELSE event.n

\* No effect is waiting and no update is queued: the next event is handled.
TodoSettled == effects = << >> /\ updates = << >>

\* The load effect: a saved value that is truthy is parsed and queued as
\* the next todos.
RunLoadEffect ==
    /\ effects # << >>
    /\ Head(effects) = "load"
    /\ effects' = Tail(effects)
    /\ updates' = IF storage.present
                  THEN Append(updates, JSONparse(storage.json))
                  ELSE updates
    /\ UNCHANGED <<todos, newTodo, storage, todoPrev, savedAtMount>>
    /\ UNCHANGED <<votingVars, clock, event, viewVars, formVars>>

\* The save effect: the todos of the committed render are written.
RunSaveEffect ==
    /\ effects # << >>
    /\ Head(effects) = "save"
    /\ effects' = Tail(effects)
    /\ storage' = Item(JSONstringify(todos))
    /\ UNCHANGED <<todos, newTodo, updates, todoPrev, savedAtMount>>
    /\ UNCHANGED <<votingVars, clock, event, viewVars, formVars>>

\* The render after the effects: the queued setTodos values are applied in
\* order, the last one stays; todos is a new array, so the save effect is
\* due again.
Render ==
    /\ effects = << >>
    /\ updates # << >>
    /\ todos' = updates[Len(updates)]
    /\ updates' = << >>
    /\ effects' = <<"save">>
    /\ UNCHANGED <<newTodo, storage, todoPrev, savedAtMount>>
    /\ UNCHANGED <<votingVars, clock, event, viewVars, formVars>>

\* onChange of the new-todo input: setNewTodo(e.target.value)
ChangeNewTodo ==
    \E value \in Inputs :
        /\ TodoSettled
        /\ value # newTodo
        /\ newTodo' = value
        /\ event' = [kind |-> "change", n |-> EventCount]
        /\ UNCHANGED <<todos, storage, effects, updates, todoPrev,
                       savedAtMount>>
        /\ UNCHANGED <<votingVars, clock, viewVars, formVars>>

\* addTodo, written with the untrimmed input as the text.
AddTodoUntrimmed ==
    /\ TodoSettled
    /\ EventCount < MaxEvents
    /\ event' = [kind |-> "add", n |-> EventCount + 1]
    /\ todoPrev' = [todos |-> todos, newTodo |-> newTodo]
    /\ IF Trim(newTodo) # << >>
       THEN /\ todos' = addUpdater(todos, newTodo, clock)
            /\ newTodo' = << >>
            /\ effects' = <<"save">>
       ELSE UNCHANGED <<todos, newTodo, effects>>
    /\ UNCHANGED <<storage, updates, savedAtMount>>
    /\ UNCHANGED <<votingVars, clock, viewVars, formVars>>

\* onSubmit of the form: addTodo, and the render it causes. An input that
\* is empty once trimmed changes nothing.
AddTodo ==
    /\ TodoSettled
    /\ EventCount < MaxEvents
    /\ event' = [kind |-> "add", n |-> EventCount + 1]
    /\ todoPrev' = [todos |-> todos, newTodo |-> newTodo]
    /\ IF Trim(newTodo) # << >>
       THEN /\ todos' = addUpdater(todos, Trim(newTodo), clock)
            /\ newTodo' = << >>
            /\ effects' = <<"save">>
       ELSE UNCHANGED <<todos, newTodo, effects>>
    /\ UNCHANGED <<storage, updates, savedAtMount>>
    /\ UNCHANGED <<votingVars, clock, viewVars, formVars>>

\* toggleTodo(id), and the render it causes.
ToggleTodo ==
    \E id \in TodoIds :
        /\ TodoSettled
        /\ EventCount < MaxEvents
        /\ event' = [kind |-> "toggle", n |-> EventCount + 1, id |-> id]
        /\ todoPrev' = [todos |-> todos, newTodo |-> newTodo]
        /\ todos' = toggleUpdater(todos, id)
        /\ effects' = <<"save">>
        /\ UNCHANGED <<newTodo, storage, updates, savedAtMount>>
        /\ UNCHANGED <<votingVars, clock, viewVars, formVars>>

\* deleteTodo(id), and the render it causes.
DeleteTodo ==
    \E id \in TodoIds :
        /\ TodoSettled
        /\ EventCount < MaxEvents
        /\ event' = [kind |-> "delete", n |-> EventCount + 1, id |-> id]
        /\ todoPrev' = [todos |-> todos, newTodo |-> newTodo]
        /\ todos' = deleteUpdater(todos, id)
        /\ effects' = <<"save">>
        /\ UNCHANGED <<newTodo, storage, updates, savedAtMount>>
        /\ UNCHANGED <<votingVars, clock, viewVars, formVars>>

\* The first render of TodoApp: no todos, an empty input, the effects due.
InitTodo ==
    /\ todos = << >>
    /\ newTodo = << >>
    /\ storage \in StoredAtMount
    /\ savedAtMount = storage
    /\ effects \in MountEffects
    /\ updates = << >>
    /\ todoPrev = [todos |-> << >>, newTodo |-> << >>]
    /\ event = NoEvent
    /\ clock \in ClockValues
    /\ state = Seed
    /\ prev = Seed
    /\ history = << >>
    /\ ViewIdle
    /\ FormIdle

NextTodo ==
    \/ RunLoadEffect
    \/ RunSaveEffect
    \/ Render
    \/ ChangeNewTodo
    \/ AddTodo
    \/ ToggleTodo
    \/ DeleteTodo
    \/ Tick

SpecTodo == InitTodo /\ [][NextTodo]_vars

----------------------------------------------------------------------------
(* The FormApp *)

\* Largest number of pending timeouts kept apart.
MaxTimers == 2

MinNameLength == 2
MinPhoneLength == 10
MinMessageLength == 10

Fields == {"name", "email", "phone", "message"}

\* The value of a key of errors that holds no message: undefined.
NoError == "undefined"

Digits == {"0", "1", "2", "3", "4", "5", "6", "7", "8", "9"}

\* The text of n characters c.
Rep(c, n) == [i \in 1..n |-> c]

\* e.target.value of each field.
FieldValues ==
    [name |-> { << >>, <<"J">>, <<"J", "o">> },
     email |-> { << >>,
                 <<"a", "@", "b", ".", "c">>,
                 <<"a", "@", "b">>,
                 <<"a", " ", "@", "b", ".", "c">> },
     phone |-> { << >>,
                 Rep("1", 10),
                 <<" ", "+">> \o Rep("1", 4) \o <<"-">> \o Rep("2", 5)
                    \o <<" ">>,
                 Rep("1", 9),
                 Rep("1", 9) \o <<"x">> },
     message |-> { << >>, Rep("m", 9), Rep("m", 10) }]

\* useState's initial formData, and the formData set after a submission.
EmptyForm ==
    [name |-> << >>, email |-> << >>, phone |-> << >>, message |-> << >>]

\* useState's initial errors: {}.
NoErrors == [f \in Fields |-> NoError]

\* /^[^\s@]+@[^\s@]+\.[^\s@]+$/.test(s): one "@", no whitespace, a
\* character before the "@", and after it a "." with a character on each
\* side.
MatchesEmail(s) ==
    \E i \in DOMAIN s :
        /\ s[i] = "@"
        /\ \A j \in DOMAIN s :
            j # i => s[j] \notin (Whitespace \cup {"@"})
        /\ i > 1
        /\ \E k \in (i + 2)..(Len(s) - 1) : s[k] = "."

\* /^\+?[\d\s-]{10,}$/.test(s): an optional "+", then ten or more digits,
\* whitespace characters or hyphens.
MatchesPhone(s) ==
    LET rest == IF s # << >> /\ Head(s) = "+" THEN Tail(s) ELSE s
    IN  /\ Len(rest) >= MinPhoneLength
        /\ \A j \in DOMAIN rest :
            rest[j] \in (Digits \cup Whitespace \cup {"-"})

\* useFormValidation, written with the minimum length of the name taken
\* for the message as well.
useFormValidationShortMessage(data) ==
    [name |->
        IF data.name = << >> THEN "Name is required"
        ELSE IF Len(data.name) < MinNameLength
             THEN "Name must be at least 2 characters long"
             ELSE NoError,
     email |->
        IF data.email = << >> THEN "Email is required"
        ELSE IF ~MatchesEmail(data.email)
             THEN "Please enter a valid email address"
             ELSE NoError,
     phone |->
        IF data.phone # << >> /\ ~MatchesPhone(Trim(data.phone))
        THEN "Please enter a valid phone number"
        ELSE NoError,
     message |->
        IF data.message = << >> THEN "Message is required"
        ELSE IF Len(data.message) < MinNameLength
             THEN "Message must be at least 10 characters long"
             ELSE NoError]

\* useFormValidation: the error of each field, NoError where the returned
\* object has no entry.
useFormValidation(data) ==
    [name |->
        IF data.name = << >> THEN "Name is required"
        ELSE IF Len(data.name) < MinNameLength
             THEN "Name must be at least 2 characters long"
             ELSE NoError,
     email |->
        IF data.email = << >> THEN "Email is required"
        ELSE IF ~MatchesEmail(data.email)
             THEN "Please enter a valid email address"
             ELSE NoError,
     phone |->
        IF data.phone # << >> /\ ~MatchesPhone(Trim(data.phone))
        THEN "Please enter a valid phone number"
        ELSE NoError,
     message |->
        IF data.message = << >> THEN "Message is required"
        ELSE IF Len(data.message) < MinMessageLength
             THEN "Message must be at least 10 characters long"
             ELSE NoError]

\* Object.keys(validationErrors).length === 0
IsValid(data) == \A f \in Fields : useFormValidation(data)[f] = NoError

\* formData, errors and showSuccess as an event finds them.
FormSnapshot ==
    [formData |-> formData, errors |-> errors, showSuccess |-> showSuccess]

\* handleChange, written with every displayed error cleared.
ChangeFieldClearsAll ==
    \E f \in Fields :
        \E value \in FieldValues[f] :
            /\ value # formData[f]
            /\ formData' = [formData EXCEPT ![f] = value]
            /\ errors' = IF errors[f] # NoError THEN NoErrors ELSE errors
            /\ event' = [kind |-> "change", field |-> f, value |-> value]
            /\ formPrev' = FormSnapshot
            /\ UNCHANGED <<showSuccess, timers>>
            /\ UNCHANGED <<votingVars, clock, viewVars, todoVars>>

\* handleChange, written without the clearing of the displayed error.
ChangeFieldKeepsError ==
    \E f \in Fields :
        \E value \in FieldValues[f] :
            /\ value # formData[f]
            /\ formData' = [formData EXCEPT ![f] = value]
            /\ event' = [kind |-> "change", field |-> f, value |-> value]
            /\ formPrev' = FormSnapshot
            /\ UNCHANGED <<errors, showSuccess, timers>>
            /\ UNCHANGED <<votingVars, clock, viewVars, todoVars>>

\* handleChange: the field takes the new value; its displayed error, if
\* any, is cleared.
ChangeField ==
    \E f \in Fields :
        \E value \in FieldValues[f] :
            /\ value # formData[f]
            /\ formData' = [formData EXCEPT ![f] = value]
            /\ errors' = IF errors[f] # NoError
                         THEN [errors EXCEPT ![f] = NoError]
                         ELSE errors
            /\ event' = [kind |-> "change", field |-> f, value |-> value]
            /\ formPrev' = FormSnapshot
            /\ UNCHANGED <<showSuccess, timers>>
            /\ UNCHANGED <<votingVars, clock, viewVars, todoVars>>

\* handleSubmit, written with the form reset in both branches.
SubmitFormAlwaysResets ==
    /\ event' = [kind |-> "submit"]
    /\ formPrev' = FormSnapshot
    /\ formData' = EmptyForm
    /\ IF IsValid(formData)
       THEN /\ showSuccess' = TRUE
            /\ timers' = IF timers < MaxTimers THEN timers + 1 ELSE timers
            /\ UNCHANGED errors
       ELSE /\ errors' = useFormValidation(formData)
            /\ UNCHANGED <<showSuccess, timers>>
    /\ UNCHANGED <<votingVars, clock, viewVars, todoVars>>

\* handleSubmit: valid data is submitted, the form is reset, the success
\* flag is set and a timeout is started to clear it; otherwise the
\* validation errors are displayed.
SubmitForm ==
    /\ event' = [kind |-> "submit"]
    /\ formPrev' = FormSnapshot
    /\ IF IsValid(formData)
       THEN /\ formData' = EmptyForm
            /\ showSuccess' = TRUE
            /\ timers' = IF timers < MaxTimers THEN timers + 1 ELSE timers
            /\ UNCHANGED errors
       ELSE /\ errors' = useFormValidation(formData)
            /\ UNCHANGED <<formData, showSuccess, timers>>
    /\ UNCHANGED <<votingVars, clock, viewVars, todoVars>>

\* The callback of setTimeout: setShowSuccess(false).
HideSuccess ==
    /\ timers > 0
    /\ timers' = timers - 1
    /\ showSuccess' = FALSE
    /\ event' = [kind |-> "timeout"]
    /\ formPrev' = FormSnapshot
    /\ UNCHANGED <<formData, errors>>
    /\ UNCHANGED <<votingVars, clock, viewVars, todoVars>>

\* The first render of FormApp.
InitForm ==
    /\ formData = EmptyForm
    /\ errors = NoErrors
    /\ showSuccess = FALSE
    /\ timers = 0
    /\ formPrev = [formData |-> EmptyForm, errors |-> NoErrors,
                   showSuccess |-> FALSE]
    /\ event = NoEvent
    /\ clock \in ClockValues
    /\ state = Seed
    /\ prev = Seed
    /\ history = << >>
    /\ ViewIdle
    /\ TodoIdle

NextForm ==
    \/ ChangeField
    \/ SubmitForm
    \/ HideSuccess

SpecForm == InitForm /\ [][NextForm]_vars

----------------------------------------------------------------------------
(* Vocabulary of the properties *)

\* The sum of the votes of the first n options.
RECURSIVE SumVotes(_, _)
SumVotes(opts, n) ==
    IF n = 0 THEN 0 ELSE opts[n].votes + SumVotes(opts, n - 1)

\* The last dispatched action; meaningful when Dispatched holds.
Dispatched == Len(history) > 0
Last == history[Len(history)]

LastIsAdd == Dispatched /\ Last.type = "ADD_OPTION"
LastIsVote == Dispatched /\ Last.type = "VOTE"
LastIsReset == Dispatched /\ Last.type = "RESET"
LastIsOther == Dispatched /\ Last.type \notin {"ADD_OPTION", "VOTE", "RESET"}

IsVote(a, id) == a.type = "VOTE" /\ a.payload = id
IsAdd(a, text) == a.type = "ADD_OPTION" /\ a.payload = text

\* The positions of the options of s whose id is id.
Matches(s, id) == {i \in DOMAIN s.options : s.options[i].id = id}

\* The (id, text) pairs of the options, in order.
IdText(opts) == [i \in DOMAIN opts |-> <<opts[i].id, opts[i].text>>]

IsPrefix(p, q) ==
    /\ Len(p) <= Len(q)
    /\ \A i \in 1..Len(p) : p[i] = q[i]

VotesOf(opts) == [i \in DOMAIN opts |-> opts[i].votes]

IsOption(o) ==
    /\ DOMAIN o = {"id", "text", "votes"}
    /\ o.id \in Int
    /\ o.text \in STRING
    /\ o.votes \in Nat

IsVotingState(s) ==
    /\ DOMAIN s = {"options", "totalVotes"}
    /\ DOMAIN s.options = 1..Len(s.options)
    /\ \A i \in DOMAIN s.options : IsOption(s.options[i])
    /\ s.totalVotes \in Nat

----------------------------------------------------------------------------
(* Properties *)

\* C1: in every state reachable from the seed by AddOption, Vote(id) for any
\* id, and Reset, totalVotes is the sum of the votes of all options.
C1_TotalIsSum ==
    state.totalVotes = SumVotes(state.options, Len(state.options))

\* C2: a Vote whose id matches no option returns a state equal to its input:
\* same options, same totalVotes.
C2_UnknownVoteIsNoOp ==
    (LastIsVote /\ Matches(prev, Last.payload) = {}) => state = prev

\* C3: a Vote whose id matches an option adds exactly 1 to the votes of that
\* one option and to totalVotes, and leaves every other option as it was.
C3_VoteCountsOnce ==
    (LastIsVote /\ Matches(prev, Last.payload) # {}) =>
        /\ Len(state.options) = Len(prev.options)
        /\ state.totalVotes = prev.totalVotes + 1
        /\ \E i \in Matches(prev, Last.payload) :
            /\ state.options[i] =
                  [prev.options[i] EXCEPT !.votes = @ + 1]
            /\ \A j \in DOMAIN prev.options :
                  j # i => state.options[j] = prev.options[j]

\* C4: the ids of the options are pairwise distinct in every reachable
\* state, also after two AddOption at the same clock reading.
C4_IdsDistinct ==
    \A i, j \in DOMAIN state.options :
        i # j => state.options[i].id # state.options[j].id

\* C5: AddOption(text) appends exactly one option, with the given text and
\* votes 0, after the unchanged earlier options, and keeps totalVotes.
C5_AddOptionAppends ==
    LastIsAdd =>
        /\ Len(state.options) = Len(prev.options) + 1
        /\ SubSeq(state.options, 1, Len(prev.options)) = prev.options
        /\ state.options[Len(state.options)].text = Last.payload
        /\ state.options[Len(state.options)].votes = 0
        /\ state.totalVotes = prev.totalVotes

\* An option was added to a state that already held votes.
C5_Witness ==
    /\ LastIsAdd
    /\ Last.payload = "Option C"
    /\ prev.totalVotes > 0
    /\ \E i \in DOMAIN prev.options : prev.options[i].votes > 0

\* C6: Reset keeps the number, order, ids and texts of the options, sets the
\* votes of each to 0 and totalVotes to 0.
C6_ResetZeroes ==
    LastIsReset =>
        /\ Len(state.options) = Len(prev.options)
        /\ \A i \in DOMAIN prev.options :
            /\ state.options[i].id = prev.options[i].id
            /\ state.options[i].text = prev.options[i].text
            /\ state.options[i].votes = 0
        /\ state.totalVotes = 0

\* A state with an added option and counted votes was reset.
C6_Witness ==
    /\ LastIsReset
    /\ Len(prev.options) > Len(Seed.options)
    /\ prev.totalVotes > 0
    /\ \E i \in DOMAIN prev.options : prev.options[i].votes > 0

\* C7: Reset is idempotent: resetting the reset of a state gives the reset of
\* that state, so a second Reset in a row changes nothing.
C7_ResetIdempotent ==
    /\ LET once == votingReducer(state, [type |-> "RESET"], clock)
       IN  votingReducer(once, [type |-> "RESET"], clock) = once
    /\ (Len(history) >= 2 /\ LastIsReset
            /\ history[Len(history) - 1].type = "RESET") => state = prev

\* Two Resets in a row were applied to a state in which an option had two
\* votes.
C7_Witness ==
    /\ Len(history) = 4
    /\ IsVote(history[1], 1)
    /\ IsVote(history[2], 1)
    /\ history[3].type = "RESET"
    /\ history[4].type = "RESET"

\* C8: across every transition the (id, text) pairs of the options before it
\* are a prefix of those after it: nothing is removed, reordered or renamed.
C8_OptionsOnlyGrow ==
    [][IsPrefix(IdText(state.options), IdText(state'.options))]_vars

\* An option was added, voted for and reset.
C8_Witness ==
    /\ Len(history) = 3
    /\ history[1].type = "ADD_OPTION"
    /\ history[2].type = "VOTE"
    /\ history[3].type = "RESET"
    /\ history[2].payload = state.options[Len(state.options)].id

\* C9: the reducer returns a VotingState for every action, and the input
\* state itself for an action of an unrecognised type.
C9_Total ==
    /\ IsVotingState(state)
    /\ LastIsOther => state = prev

\* An action of an unrecognised type was applied to a state holding votes.
C9_Witness ==
    /\ LastIsOther
    /\ prev.totalVotes > 0
    /\ \E i \in DOMAIN prev.options : prev.options[i].votes > 0

\* C10: the initial state is the seed; Vote(1), AddOption("Option C"), Reset
\* give in turn votes (1, 0) and total 1; a third option with votes 0 and
\* total still 1; three options with votes 0, total 0, ids and texts kept.
C10_Scenario ==
    /\ history = << >> => state = Seed
    /\ (Len(history) >= 1 /\ IsVote(history[1], 1)) =>
        /\ Len(history) = 1 =>
            /\ VotesOf(state.options) = <<1, 0>>
            /\ state.totalVotes = 1
        /\ (Len(history) >= 2 /\ IsAdd(history[2], "Option C")) =>
            /\ Len(history) = 2 =>
                /\ Len(state.options) = 3
                /\ VotesOf(state.options) = <<1, 0, 0>>
                /\ state.options[3].text = "Option C"
                /\ state.totalVotes = 1
            /\ (Len(history) = 3 /\ history[3].type = "RESET") =>
                /\ VotesOf(state.options) = <<0, 0, 0>>
                /\ state.totalVotes = 0
                /\ IdText(state.options) = IdText(prev.options)
                /\ IsPrefix(IdText(Seed.options), IdText(state.options))
                /\ state.options[3].text = "Option C"

\* The three steps of the scenario were taken from the seed.
C10_Witness ==
    /\ Len(history) = 3
    /\ IsVote(history[1], 1)
    /\ IsAdd(history[2], "Option C")
    /\ history[3].type = "RESET"

\* C11: through the view every option's text is non-empty and has no
\* whitespace at either end; a submit of an empty or whitespace-only input
\* dispatches nothing and leaves state and input alone, any other submit
\* dispatches AddOption with the trimmed input and clears the input.
C11_ViewTextsTrimmed ==
    /\ \A i \in DOMAIN state.options :
        /\ state.options[i].text # << >>
        /\ Head(state.options[i].text) \notin Whitespace
        /\ state.options[i].text[Len(state.options[i].text)]
                \notin Whitespace
    /\ event.kind = "submit" =>
        IF \A k \in DOMAIN event.input : event.input[k] \in Whitespace
        THEN /\ state = event.before
             /\ Len(history) = event.dispatched
             /\ newOption = event.input
        ELSE /\ Len(history) = event.dispatched + 1
             /\ Last.type = "ADD_OPTION"
             /\ Last.payload = Trim(event.input)
             /\ prev = event.before
             /\ Len(state.options) = Len(prev.options) + 1
             /\ state.options[Len(state.options)].text = Trim(event.input)
             /\ newOption = << >>

\* An input with whitespace around its text was submitted.
C11_Witness ==
    /\ event.kind = "submit"
    /\ event.input = <<" ", "a">>
    /\ state.options[Len(state.options)].text = <<"a">>
    /\ newOption = << >>

\* C12: the reducer does not validate the text: AddOption("") returns a
\* state with a new last option whose text is empty and whose votes is 0.
C12_EmptyTextAccepted ==
    (LastIsAdd /\ Last.payload = "") =>
        /\ Len(state.options) = Len(prev.options) + 1
        /\ state.options[Len(state.options)].text = ""
        /\ state.options[Len(state.options)].votes = 0

\* AddOption("") was applied to a state holding votes.
C12_Witness ==
    /\ LastIsAdd
    /\ Last.payload = ""
    /\ prev.totalVotes > 0
    /\ state.options[Len(state.options)].text = ""

\* C13: the progress of every option has value = votes and maximum =
\* max(totalVotes, 1): totalVotes when it is positive, 1 when it is 0, never 0.
C13_ProgressMax ==
    /\ \A i \in DOMAIN state.options :
        progressValue(state.options[i]) = state.options[i].votes
    /\ progressMax(state) # 0
    /\ state.totalVotes > 0 => progressMax(state) = state.totalVotes
    /\ state.totalVotes = 0 => progressMax(state) = 1
    /\ progressMax(state) >= state.totalVotes /\ progressMax(state) >= 1

\* A state with several votes was reset: the maximum went from totalVotes
\* to 1.
C13_Witness ==
    /\ LastIsReset
    /\ prev.totalVotes > 1
    /\ progressMax(prev) = prev.totalVotes
    /\ state.totalVotes = 0
    /\ progressMax(state) = 1

\* The state s with the id of its last option blanked.
WithoutLastId(s) ==
    [s EXCEPT !.options[Len(s.options)].id = 0]

\* C14: the reducer is deterministic up to the generated id: the result of
\* Vote and Reset does not depend on the clock reading, and two AddOption
\* of one text to one state differ at most in the id of the new option.
C14_Deterministic ==
    \A t \in ClockValues :
        /\ \A id \in VoteIds :
            votingReducer(state, [type |-> "VOTE", payload |-> id], t)
              = votingReducer(state, [type |-> "VOTE", payload |-> id], clock)
        /\ votingReducer(state, [type |-> "RESET"], t)
              = votingReducer(state, [type |-> "RESET"], clock)
        /\ \A text \in Texts :
            WithoutLastId(votingReducer(state,
                    [type |-> "ADD_OPTION", payload |-> text], t))
              = WithoutLastId(votingReducer(state,
                    [type |-> "ADD_OPTION", payload |-> text], clock))
        /\ (LastIsVote \/ LastIsReset) =>
                state = votingReducer(prev, Last, t)
        /\ LastIsAdd =>
                WithoutLastId(state) =
                    WithoutLastId(votingReducer(prev, Last, t))

\* An option was added to a state with votes, later than another reading of
\* the clock would have been.
C14_Witness ==
    /\ LastIsAdd
    /\ prev.totalVotes > 0
    /\ state.options[Len(state.options)].id > 3

\* A non-empty list was saved before the mount.
SavedBeforeMount == savedAtMount.present /\ savedAtMount.json # << >>

\* C15: when TodoApp mounts while 'todos' holds a saved non-empty list, then
\* once the mount effects have finished (each possibly run more than once)
\* the todos are the saved list and 'todos' still holds that list.
C15_RoundTrip ==
    (event.kind = "none" /\ TodoSettled /\ SavedBeforeMount) =>
        /\ todos = JSONparse(savedAtMount.json)
        /\ storage = savedAtMount

\* C16: after every add, toggle or delete, once the save effect has run,
\* 'todos' holds the serialization of the current todos; and between the
\* mount and the first user action 'todos' never holds an empty list while
\* a non-empty list had been saved before the mount.
C16_StorageFollowsTodos ==
    /\ (event.kind \in {"add", "toggle", "delete"} /\ TodoSettled) =>
            storage = Item(JSONstringify(todos))
    /\ (event.kind = "none" /\ SavedBeforeMount) =>
            ~(storage.present /\ storage.json = << >>)

\* C17: addTodo with an input that is empty once trimmed leaves the todos
\* and the input unchanged; otherwise it appends exactly one todo with the
\* trimmed text and completed = false after the unchanged earlier todos,
\* and clears the input.
C17_AddTodo ==
    event.kind = "add" =>
        IF \A k \in DOMAIN todoPrev.newTodo :
                todoPrev.newTodo[k] \in Whitespace
        THEN /\ todos = todoPrev.todos
             /\ newTodo = todoPrev.newTodo
        ELSE /\ Len(todos) = Len(todoPrev.todos) + 1
             /\ SubSeq(todos, 1, Len(todoPrev.todos)) = todoPrev.todos
             /\ todos[Len(todos)].text = Trim(todoPrev.newTodo)
             /\ todos[Len(todos)].text # << >>
             /\ Head(todos[Len(todos)].text) \notin Whitespace
             /\ todos[Len(todos)].text[Len(todos[Len(todos)].text)]
                    \notin Whitespace
             /\ todos[Len(todos)].completed = FALSE
             /\ newTodo = << >>

\* A todo whose input ended in a blank was added after a loaded one.
C17_Witness ==
    /\ event.kind = "add"
    /\ todoPrev.newTodo = <<"a", " ">>
    /\ Len(todoPrev.todos) > 0
    /\ Len(todos) = Len(todoPrev.todos) + 1
    /\ todos[Len(todos)].text = <<"a">>

\* The positions at which two lists of one length differ in completed.
Flipped(before, after) ==
    {i \in DOMAIN before : after[i].completed # before[i].completed}

\* C18: toggleTodo(id) flips completed of the todo whose id is id and
\* changes nothing else; twice it restores the list; toggling one displayed
\* todo changes the completed flag of exactly one todo.
C18_ToggleTodo ==
    /\ \A id \in TodoIds :
            toggleUpdater(toggleUpdater(todos, id), id) = todos
    /\ event.kind = "toggle" =>
        /\ Len(todos) = Len(todoPrev.todos)
        /\ \A i \in DOMAIN todos :
            /\ todos[i].id = todoPrev.todos[i].id
            /\ todos[i].text = todoPrev.todos[i].text
            /\ todos[i].id # event.id =>
                    todos[i].completed = todoPrev.todos[i].completed
            /\ todos[i].id = event.id =>
                    todos[i].completed = ~todoPrev.todos[i].completed
        /\ (\E i \in DOMAIN todoPrev.todos :
                    todoPrev.todos[i].id = event.id) =>
                Cardinality(Flipped(todoPrev.todos, todos)) = 1

\* C19: deleteTodo(id) removes the todo whose id is id and keeps every other
\* todo, unchanged and in order; deleting one displayed todo shortens the
\* list by exactly one; an id matching no todo leaves the list unchanged.
C19_DeleteTodo ==
    event.kind = "delete" =>
        /\ \A i \in DOMAIN todos : todos[i].id # event.id
        /\ todos = SelectSeq(todoPrev.todos, LAMBDA t : t.id # event.id)
        /\ (\E i \in DOMAIN todoPrev.todos :
                    todoPrev.todos[i].id = event.id) =>
                Len(todos) = Len(todoPrev.todos) - 1
        /\ (\A i \in DOMAIN todoPrev.todos :
                    todoPrev.todos[i].id # event.id) =>
                todos = todoPrev.todos

\* C20: a submit has exactly two outcomes, decided by the validation of the
\* current form data: without errors the four fields become empty, the
\* success flag becomes true and the displayed errors stay as they were;
\* with an error the displayed errors become the validation errors and the
\* form data and the success flag stay as they were.
C20_SubmitOutcomes ==
    event.kind = "submit" =>
        LET found == useFormValidation(formPrev.formData)
        IN  IF \A f \in Fields : found[f] = NoError
            THEN /\ \A f \in Fields : formData[f] = << >>
                 /\ showSuccess = TRUE
                 /\ errors = formPrev.errors
            ELSE /\ errors = found
                 /\ formData = formPrev.formData
                 /\ showSuccess = formPrev.showSuccess

\* Invalid data was submitted while the success of an earlier submission
\* was still shown.
C20_Witness ==
    /\ event.kind = "submit"
    /\ formPrev.showSuccess = TRUE
    /\ showSuccess = TRUE
    /\ formData.name # << >>
    /\ errors.phone # NoError
    /\ errors.name = NoError

\* C21: validation gives each field at most one error: name 'required' when
\* empty, else 'at least 2 characters' when shorter than 2; message
\* 'required' when empty, else 'at least 10 characters' when shorter than
\* 10; email 'required' when empty; an empty phone has no error; a field
\* satisfying its rule has no error.
C21_ValidationRules ==
    LET found == useFormValidation(formData)
    IN  /\ DOMAIN found = Fields
        /\ formData.name = << >> => found.name = "Name is required"
        /\ Len(formData.name) = 1 =>
                found.name = "Name must be at least 2 characters long"
        /\ Len(formData.name) >= 2 => found.name = NoError
        /\ formData.message = << >> =>
                found.message = "Message is required"
        /\ Len(formData.message) \in 1..9 =>
                found.message = "Message must be at least 10 characters long"
        /\ Len(formData.message) >= 10 => found.message = NoError
        /\ formData.email = << >> => found.email = "Email is required"
        /\ formData.email = <<"a", "@", "b", ".", "c">> =>
                found.email = NoError
        /\ formData.phone = << >> => found.phone = NoError
        /\ formData.phone = Rep("1", 10) => found.phone = NoError
        /\ (event.kind = "submit" /\ ~IsValid(formPrev.formData)) =>
                /\ formData = formPrev.formData
                /\ errors = found

\* A short name and a short message were submitted with no email and no
\* phone, and their errors are displayed.
C21_Witness ==
    /\ event.kind = "submit"
    /\ Len(formData.name) = 1
    /\ Len(formData.message) = 9
    /\ formData.email = << >>
    /\ formData.phone = << >>
    /\ errors.name = "Name must be at least 2 characters long"
    /\ errors.message = "Message must be at least 10 characters long"
    /\ errors.email = "Email is required"
    /\ errors.phone = NoError

\* C22: a change of a field sets that field to the new value and leaves the
\* other three fields; it clears the displayed error of that field and
\* leaves the displayed errors of the other fields and the success flag.
C22_ChangeField ==
    event.kind = "change" =>
        /\ formData[event.field] = event.value
        /\ \A g \in Fields \ {event.field} :
            /\ formData[g] = formPrev.formData[g]
            /\ errors[g] = formPrev.errors[g]
        /\ errors[event.field] = NoError
        /\ showSuccess = formPrev.showSuccess

\* The name was changed while its error and the error of the message were
\* displayed and the success of an earlier submission was shown.
C22_Witness ==
    /\ event.kind = "change"
    /\ event.field = "name"
    /\ formPrev.errors.name # NoError
    /\ errors.name = NoError
    /\ errors.message # NoError
    /\ showSuccess = TRUE

\* C23: a displayed error is never stale: an error displayed for a field is
\* the validation error of the current value of that field, and right after
\* a successful submit no field has a displayed error.
C23_NoStaleError ==
    /\ \A f \in Fields :
        errors[f] # NoError => errors[f] = useFormValidation(formData)[f]
    /\ (event.kind = "submit" /\ IsValid(formPrev.formData)) =>
            \A f \in Fields : errors[f] = NoError

\* After an invalid submit one field was corrected; the error of another
\* is still displayed and still the error of its value.
C23_Witness ==
    /\ event.kind = "change"
    /\ event.field = "email"
    /\ formPrev.errors.email = "Email is required"
    /\ IsValid([formData EXCEPT !.phone = << >>])
    /\ errors.phone = "Please enter a valid phone number"

\* C24: in every reachable voting state the votes of each option is a
\* non-negative integer not greater than max(totalVotes, 1), so the progress
\* value never exceeds the progress maximum, and totalVotes is a
\* non-negative integer.
C24_VotesWithinTotal ==
    /\ state.totalVotes \in Nat
    /\ \A i \in DOMAIN state.options :
        /\ state.options[i].votes \in Nat
        /\ state.options[i].votes <=
                (IF state.totalVotes > 1 THEN state.totalVotes ELSE 1)
        /\ progressValue(state.options[i]) <= progressMax(state)

\* Every vote counted so far went to one option, which fills its progress.
C24_Witness ==
    /\ LastIsVote
    /\ state.totalVotes >= 2
    /\ \E i \in DOMAIN state.options :
        /\ state.options[i].votes = state.totalVotes
        /\ progressValue(state.options[i]) = progressMax(state)

====
